---- MODULE Spec2Model ----
(***************************************************************************)
(* A model of nextjs-kit: the ServerError type, the send / act boundaries   *)
(* of helpers.ts, the isErrorObject discriminator of client.ts and the      *)
(* useServerAction hook of client/use-server-action.ts.                     *)
(***************************************************************************)
EXTENDS Integers, Sequences, FiniteSets, TLC

(***************************************************************************)
(* Bounds of the model.                                                     *)
(***************************************************************************)
\* how many action() calls one hook instance makes
MaxInvocations == 3
\* how many distinct unclassified errors a unit of work may raise
MaxUnknown == 2
\* the longest tag list a ServerError carries
MaxTags == 1
\* how many initOnce and doOnce calls one process makes
MaxCalls == 4

(***************************************************************************)
(* JavaScript values.  A primitive (or array) is a record of one shape:     *)
(* t is the result of typeof (with "null" and "array" kept apart), s the   *)
(* string, n the number (1 / 0 for true / false), a the array's items.      *)
(***************************************************************************)
Undefined == [t |-> "undefined", s |-> "", n |-> 0, a |-> <<>>]
Null == [t |-> "null", s |-> "", n |-> 0, a |-> <<>>]
Str(x) == [t |-> "string", s |-> x, n |-> 0, a |-> <<>>]
Num(x) == [t |-> "number", s |-> "", n |-> x, a |-> <<>>]
True == [t |-> "boolean", s |-> "", n |-> 1, a |-> <<>>]
Arr(x) == [t |-> "array", s |-> "", n |-> 0, a |-> x]

\* ToBoolean: what `!!v`, `v || d` and `v && w` test
Truthy(v) ==
    CASE v.t = "undefined" -> FALSE
      [] v.t = "null" -> FALSE
      [] v.t = "string" -> v.s # ""
      [] v.t = "number" -> v.n # 0
      [] v.t = "boolean" -> v.n = 1
      [] OTHER -> TRUE

\* what `v ?? d` tests
Nullish(v) == v.t \in {"undefined", "null"}

(***************************************************************************)
(* A value an action resolves to: a primitive, or an object with the        *)
(* properties error, status, tags and __isErrorObj (Undefined when the      *)
(* object has no such property).  A primitive has none of them.             *)
(***************************************************************************)
Prim(p) ==
    [t |-> p.t, s |-> p.s, n |-> p.n, a |-> p.a,
     error |-> Undefined, status |-> Undefined, tags |-> Undefined,
     isErrorObj |-> Undefined]

Obj(e, st, tg, m) ==
    [t |-> "object", s |-> "", n |-> 0, a |-> <<>>,
     error |-> e, status |-> st, tags |-> tg, isErrorObj |-> m]

(***************************************************************************)
(* client.ts                                                                *)
(***************************************************************************)
\* a discriminator that forgets the marker: any {error, status} object passes
isErrorObjectNoMarker(obj) ==
    /\ Truthy(obj)
    /\ obj.error.t = "string"
    /\ obj.status.t = "number"

\* obj && typeof obj.error === "string" && typeof obj.status === "number"
\*     && obj.__isErrorObj === true, as the condition its callers test
isErrorObject(obj) ==
    /\ Truthy(obj)
    /\ obj.error.t = "string"
    /\ obj.status.t = "number"
    /\ obj.isErrorObj = True

isSuccessObject(obj) == ~isErrorObject(obj)

(***************************************************************************)
(* server-error.ts.  A thrown value is a record of one shape: k tells a     *)
(* ServerError from the navigation signal and from anything else; info is   *)
(* the ServerErrorInfo, each optional field Undefined when omitted.         *)
(***************************************************************************)
NoInfo ==
    [status |-> Undefined, userMessage |-> Undefined, redirect |-> Undefined,
     redirectType |-> Undefined, tags |-> Undefined]

ServerError(message, info) ==
    [k |-> "ServerError", message |-> message, n |-> 0, info |-> info]

\* the control-flow signal next's redirect(url, type) raises
NavSignal(url, type) ==
    [k |-> "redirect", message |-> "NEXT_REDIRECT", n |-> 0,
     info |-> [NoInfo EXCEPT !.redirect = url, !.redirectType = type]]

\* any other raised value, the i-th of them
UnknownError(i) ==
    [k |-> "unknown", message |-> "internal detail", n |-> i, info |-> NoInfo]

\* no raised value (the null of the hook's error state)
NoError == [k |-> "none", message |-> "", n |-> 0, info |-> NoInfo]

InstanceOfServerError(e) == e.k = "ServerError"

isRedirectError(e) == e.k = "redirect"

getDefaultErrorMessage(status) ==
    CASE status = 400 -> "Bad Request"
      [] status = 401 -> "Unauthorized"
      [] status = 403 -> "Forbidden"
      [] status = 404 -> "Not Found"
      [] status = 406 -> "Not Acceptable"
      [] status = 409 -> "Conflict"
      [] status = 422 -> "Unprocessable Entity"
      [] status = 429 -> "Too Many Requests"
      [] status = 451 -> "Unavailable For Legal Reasons"
      [] status = 500 -> "Internal Server Error"
      [] status = 501 -> "Not Implemented"
      [] OTHER -> "Error"

\* this.info.status ?? 500
getStatus(e) == IF Nullish(e.info.status) THEN 500 ELSE e.info.status.n

\* a resolution that takes every string for an override, the empty one too
getUserMessageKeepsEmpty(e) ==
    IF e.info.userMessage = True THEN e.message
    ELSE IF ~Nullish(e.info.userMessage) THEN e.info.userMessage.s
    ELSE getDefaultErrorMessage(getStatus(e))

getUserMessage(e) ==
    IF e.info.userMessage = True THEN e.message
    ELSE IF Truthy(e.info.userMessage) THEN e.info.userMessage.s
    ELSE getDefaultErrorMessage(getStatus(e))

shouldRedirect(e) == Truthy(e.info.redirect)

getTags(e) == IF Truthy(e.info.tags) THEN e.info.tags.a ELSE <<>>

getRedirect(e) == IF Truthy(e.info.redirect) THEN e.info.redirect.s ELSE ""

(***************************************************************************)
(* JSON.stringify on the objects send builds: {error, status, tags} in     *)
(* insertion order.  The strings of this model hold no character that       *)
(* JSON escapes, so a string is encoded by quoting it.                      *)
(***************************************************************************)
Quote(s) == "\"" \o s \o "\""

RECURSIVE JoinQuoted(_)
JoinQuoted(items) ==
    IF items = <<>> THEN ""
    ELSE IF Len(items) = 1 THEN Quote(Head(items))
    ELSE Quote(Head(items)) \o "," \o JoinQuoted(Tail(items))

\* the body of an earlier revision, which had no tags
JSONstringifyNoTags(error, status, tags) ==
    "{\"error\":" \o Quote(error) \o ",\"status\":" \o ToString(status) \o "}"

JSONstringify(error, status, tags) ==
    "{\"error\":" \o Quote(error) \o ",\"status\":" \o ToString(status)
        \o ",\"tags\":[" \o JoinQuoted(tags) \o "]}"

(***************************************************************************)
(* helpers.ts: what a unit of work, or a boundary, ends with.  One shape:   *)
(* kind "return" carries resp (send) or val (act), kind "throw" carries     *)
(* exc.                                                                     *)
(***************************************************************************)
NoResponse == [status |-> 0, body |-> "", contentType |-> ""]

\* new Response(body, {status, headers: {"Content-Type": "application/json"}})
JsonResponse(status, body) ==
    [status |-> status, body |-> body, contentType |-> "application/json"]

ReturnResponse(r) ==
    [kind |-> "return", resp |-> r, val |-> Prim(Undefined), exc |-> NoError]

ReturnValue(v) ==
    [kind |-> "return", resp |-> NoResponse, val |-> v, exc |-> NoError]

Throw(e) ==
    [kind |-> "throw", resp |-> NoResponse, val |-> Prim(Undefined), exc |-> e]

\* one observable call made while a boundary handles an error
Ev(name, arg) == [ev |-> name, arg |-> arg]

\* redirect(url, type) of next/navigation: raises the navigation signal
redirect(url, type) == NavSignal(Str(url), type)

(***************************************************************************)
(* SendLikeOptions.  mapError is absent, or a function that returns null /  *)
(* undefined ("null"), returns the ServerError value ("returns") or raises  *)
(* value ("throws"); onError is absent, returns or raises HookFailure;      *)
(* errorLogs is unset or one of its three strings.                          *)
(***************************************************************************)
HookFailure == [k |-> "unknown", message |-> "hook failed", n |-> 0, info |-> NoInfo]

\* a boundary that takes the navigation signal for an ordinary error
sendRethrowsNothing(err) == FALSE

\* send: if (isRedirectError(err)) throw err
sendRethrows(err) == isRedirectError(err)

\* the error response of an earlier revision: a body without tags
sendErrorResponseNoTags(err) ==
    JsonResponse(getStatus(err),
                 JSONstringifyNoTags(getUserMessage(err), getStatus(err), getTags(err)))

\* the Response send builds from a ServerError
sendErrorResponse(err) ==
    JsonResponse(getStatus(err),
                 JSONstringify(getUserMessage(err), getStatus(err), getTags(err)))

\* an answer to an unknown error that carries the error's own message
sendUnknownResponseLeaks(err) ==
    JsonResponse(500, JSONstringify(err.message, 500, <<>>))

\* the Response send builds from any other caught value
sendUnknownResponse(err) ==
    JsonResponse(500, JSONstringify("Internal Server Error", 500, <<>>))

\* onError handed the value as it was caught, as the first revision did
sendOnErrorArgumentUnmapped(caught, mapped) == caught

\* send: options.onError(err), err being the caught value after mapError
sendOnErrorArgument(caught, mapped) == mapped

\* a log policy that only knows "disabled"
sendLogsServerErrorUnlessDisabled(options, status) ==
    options.errorLogs # "disabled"

\* send: logAll || (options.errorLogs === "5xx" && status >= 500)
sendLogsServerError(options, status) ==
    \/ options.errorLogs \in {"unset", "all"}
    \/ (options.errorLogs = "5xx" /\ status >= 500)

\* send: logAll || options.errorLogs === "5xx"
sendLogsUnknown(options) ==
    \/ options.errorLogs \in {"unset", "all"}
    \/ options.errorLogs = "5xx"

send(work, options) ==
    IF work.kind = "return" THEN [events |-> <<>>, out |-> work]
    ELSE
    LET err0 == work.exc IN
    IF sendRethrows(err0) THEN [events |-> <<>>, out |-> Throw(err0)]
    ELSE
    LET callsMap == options.mapError.mode # "absent" /\ ~InstanceOfServerError(err0)
        evMap == IF callsMap THEN <<Ev("mapError", err0)>> ELSE <<>>
    IN
    IF callsMap /\ options.mapError.mode = "throws"
    THEN [events |-> evMap, out |-> Throw(options.mapError.value)]
    ELSE
    LET err == IF callsMap /\ options.mapError.mode = "returns"
               THEN options.mapError.value ELSE err0
        evOn == IF options.onError # "absent"
                THEN <<Ev("onError", sendOnErrorArgument(err0, err))>> ELSE <<>>
    IN
    IF options.onError = "throws"
    THEN [events |-> evMap \o evOn, out |-> Throw(HookFailure)]
    ELSE
    IF InstanceOfServerError(err)
    THEN LET status == getStatus(err)
             evLog == IF sendLogsServerError(options, status)
                      THEN <<Ev("log", err)>> ELSE <<>>
             signal == redirect(getRedirect(err), err.info.redirectType)
         IN IF shouldRedirect(err)
            THEN [events |-> evMap \o evOn \o evLog \o <<Ev("redirect", signal)>>,
                  out |-> Throw(signal)]
            ELSE [events |-> evMap \o evOn \o evLog,
                  out |-> ReturnResponse(sendErrorResponse(err))]
    ELSE LET evLog == IF sendLogsUnknown(options)
                      THEN <<Ev("log", err)>> ELSE <<>>
         IN [events |-> evMap \o evOn \o evLog,
             out |-> ReturnResponse(sendUnknownResponse(err))]

\* act: if (isRedirectError(err)) throw err
actRethrows(err) == isRedirectError(err)

\* an error object without the discriminator marker
actErrorObjectNoMarker(err) ==
    Obj(Str(getUserMessage(err)), Num(getStatus(err)), Arr(getTags(err)), Undefined)

\* the Structured Error Object act builds from a ServerError
actErrorObject(err) ==
    Obj(Str(getUserMessage(err)), Num(getStatus(err)), Arr(getTags(err)), True)

\* the Structured Error Object act builds from any other caught value
actUnknownObject(err) ==
    Obj(Str("Internal Server Error"), Num(500), Arr(<<>>), True)

act(work, options) ==
    IF work.kind = "return" THEN [events |-> <<>>, out |-> work]
    ELSE
    LET err0 == work.exc IN
    IF actRethrows(err0) THEN [events |-> <<>>, out |-> Throw(err0)]
    ELSE
    LET callsMap == options.mapError.mode # "absent" /\ ~InstanceOfServerError(err0)
        evMap == IF callsMap THEN <<Ev("mapError", err0)>> ELSE <<>>
    IN
    IF callsMap /\ options.mapError.mode = "throws"
    THEN [events |-> evMap, out |-> Throw(options.mapError.value)]
    ELSE
    LET err == IF callsMap /\ options.mapError.mode = "returns"
               THEN options.mapError.value ELSE err0
        evOn == IF options.onError # "absent" THEN <<Ev("onError", err)>> ELSE <<>>
    IN
    IF options.onError = "throws"
    THEN [events |-> evMap \o evOn, out |-> Throw(HookFailure)]
    ELSE
    LET evLog == IF options.errorLogs # "disabled" THEN <<Ev("log", err)>> ELSE <<>> IN
    IF InstanceOfServerError(err)
    THEN [events |-> evMap \o evOn \o evLog, out |-> ReturnValue(actErrorObject(err))]
    ELSE [events |-> evMap \o evOn \o evLog, out |-> ReturnValue(actUnknownObject(err))]

(***************************************************************************)
(* The inputs of the boundaries.                                            *)
(***************************************************************************)
RECURSIVE SeqsUpTo(_, _)
SeqsUpTo(S, n) ==
    IF n = 0 THEN {<<>>}
    ELSE LET shorter == SeqsUpTo(S, n - 1)
         IN shorter \cup {Append(q, x) : q \in shorter, x \in S}

TagNames == {"a", "b"}

Infos ==
    { [status |-> st, userMessage |-> um, redirect |-> rd[1],
       redirectType |-> rd[2], tags |-> tg] :
        st \in {Undefined, Num(200), Num(404), Num(500), Num(503)},
        um \in {Undefined, True, Str("X"), Str("")},
        rd \in {<<Undefined, Undefined>>, <<Str("/login"), Undefined>>,
                <<Str("/login"), Str("push")>>},
        tg \in {Undefined} \cup {Arr(q) : q \in SeqsUpTo(TagNames, MaxTags)} }

ServerErrors == { ServerError(m, i) : m \in {"boom", ""}, i \in Infos }

NavSignals == { NavSignal(Str("/home"), Undefined), NavSignal(Str("/login"), Str("push")) }

UnknownErrors == { UnknownError(i) : i \in 1..MaxUnknown }

Raised == ServerErrors \cup NavSignals \cup UnknownErrors

\* what mapError may hand back
MappedErrors ==
    { ServerError("mapped", [NoInfo EXCEPT !.status = Num(404), !.userMessage = Str("X")]),
      ServerError("mapped", [NoInfo EXCEPT !.redirect = Str("/login")]),
      ServerError("mapped", NoInfo) }

MapErrorHooks ==
    { [mode |-> "absent", value |-> NoError], [mode |-> "null", value |-> NoError],
      [mode |-> "throws", value |-> HookFailure] }
    \cup { [mode |-> "returns", value |-> e] : e \in MappedErrors }

Options ==
    [mapError : MapErrorHooks, onError : {"absent", "returns", "throws"},
     errorLogs : {"unset", "all", "5xx", "disabled"}]

\* what the unit of work handed to send ends with
SendWorks ==
    { ReturnResponse(JsonResponse(200, "[]")), ReturnResponse(JsonResponse(201, "7")) }
    \cup { Throw(e) : e \in Raised }

\* what the unit of work handed to act ends with
ActWorks ==
    { ReturnValue(Prim(Str("id-1"))), ReturnValue(Prim(Undefined)),
      ReturnValue(Obj(Str("no marker"), Num(404), Undefined, Undefined)) }
    \cup { Throw(e) : e \in Raised }

(***************************************************************************)
(* client/use-server-action.ts: the state of one useServerAction instance.  *)
(***************************************************************************)
VARIABLES
    data,            \* useState: the last successful result, or undefined
    isSuccess,       \* useState
    error,           \* useState: the last raised value, or null
    errorObject,     \* useState: the last Structured Error Object, or null
    abortController, \* useRef: the invocation whose controller is current, 0 for null
    invocations,     \* every action() call so far: its controller and its settlement
    hookOptions,     \* which of onSuccess / onError the caller supplied
    onSuccessCalls,  \* the calls made to options.onSuccess
    onErrorCalls,    \* the calls made to options.onError
    mounted,         \* whether the effect's cleanup has yet to run
    last             \* the step taken last, and the hook's state name before it

hookVars ==
    <<data, isSuccess, error, errorObject, abortController, invocations,
      hookOptions, onSuccessCalls, onErrorCalls, mounted, last>>

\* a value the hook holds in error: the raised value and its __errorObject
HookError(e, eo) == [e |-> e, errorObject |-> eo]

NullError == HookError(NoError, Prim(Undefined))

\* new Error(message)
Error(message) == [k |-> "Error", message |-> message, n |-> 0, info |-> NoInfo]

\* React.useTransition: pending while an async transition has not finished
isPending == \E i \in 1..Len(invocations) : ~invocations[i].settled

StateName ==
    IF isPending THEN "Pending"
    ELSE IF isSuccess THEN "Succeeded"
    ELSE IF error # NullError THEN "Failed"
    ELSE "Idle"

\* what the wrapped server action may resolve to
HookResults ==
    { Prim(Str("id-1")), Prim(Undefined),
      Obj(Str("no marker"), Num(404), Undefined, Undefined),
      actErrorObject(ServerError("boom", [NoInfo EXCEPT !.status = Num(404),
                                                       !.userMessage = Str("X")])) }

\* what the wrapped server action may reject with
HookRejections == { UnknownError(1), NavSignal(Str("/home"), Undefined) }

HookInit ==
    /\ data = Prim(Undefined)
    /\ isSuccess = FALSE
    /\ error = NullError
    /\ errorObject = Prim(Null)
    /\ abortController = 0
    /\ invocations = <<>>
    /\ hookOptions \in [onSuccess : BOOLEAN, onError : BOOLEAN]
    /\ onSuccessCalls = <<>>
    /\ onErrorCalls = <<>>
    /\ mounted = TRUE
    /\ last = [op |-> "none", inv |-> 0, wasAborted |-> FALSE, prior |-> "Idle"]

\* abortController.current.abort(), when there is a current controller
abortCurrent(invs, current) ==
    IF current = 0 THEN invs ELSE [invs EXCEPT ![current].aborted = TRUE]

\* currentAbortController.signal.aborted, with the check left out
signalAbortedNever(i) == FALSE

\* currentAbortController.signal.aborted
signalAborted(i) == invocations[i].aborted

\* action() that starts the transition without clearing the last result
actionKeepsResult ==
    /\ Len(invocations) < MaxInvocations
    /\ invocations' = Append(abortCurrent(invocations, abortController),
                             [aborted |-> FALSE, settled |-> FALSE, how |-> "pending",
                              result |-> Prim(Undefined), exc |-> NoError])
    /\ abortController' = Len(invocations) + 1
    /\ last' = [op |-> "action", inv |-> Len(invocations) + 1, wasAborted |-> FALSE,
                prior |-> StateName]
    /\ UNCHANGED <<data, isSuccess, error, errorObject, hookOptions, onSuccessCalls,
                   onErrorCalls, mounted>>

\* the callback the hook returns as `action`
action ==
    /\ Len(invocations) < MaxInvocations
    /\ invocations' = Append(abortCurrent(invocations, abortController),
                             [aborted |-> FALSE, settled |-> FALSE, how |-> "pending",
                              result |-> Prim(Undefined), exc |-> NoError])
    /\ abortController' = Len(invocations) + 1
    /\ data' = Prim(Undefined)
    /\ isSuccess' = FALSE
    /\ error' = NullError
    /\ errorObject' = Prim(Null)
    /\ last' = [op |-> "action", inv |-> Len(invocations) + 1, wasAborted |-> FALSE,
                prior |-> StateName]
    /\ UNCHANGED <<hookOptions, onSuccessCalls, onErrorCalls, mounted>>

\* a success written without its flag
succeededUnflagged(result) ==
    [data |-> result, isSuccess |-> FALSE, error |-> NullError,
     errorObject |-> Prim(Null)]

\* setData(result); setIsSuccess(true); setError(null); setErrorObject(null)
succeeded(result) ==
    [data |-> result, isSuccess |-> TRUE, error |-> NullError,
     errorObject |-> Prim(Null)]

\* the transition's callback, when `await action(...args)` resolves to result
transitionResolved(i, result) ==
    /\ i \in 1..Len(invocations)
    /\ ~invocations[i].settled
    /\ LET isErrObj == isErrorObject(result)
           err == HookError(Error(result.error.s), result)
       IN
       /\ onSuccessCalls' =
              IF ~isErrObj /\ hookOptions.onSuccess
              THEN Append(onSuccessCalls,
                          [inv |-> i, aborted |-> invocations[i].aborted, data |-> result])
              ELSE onSuccessCalls
       /\ IF signalAborted(i)
          THEN UNCHANGED <<data, isSuccess, error, errorObject, onErrorCalls>>
          ELSE IF isErrObj
          THEN /\ errorObject' = result
               /\ onErrorCalls' =
                      IF hookOptions.onError
                      THEN Append(onErrorCalls,
                                  [inv |-> i, aborted |-> invocations[i].aborted,
                                   error |-> err,
                                   errorObject |-> IF Truthy(err.errorObject)
                                                   THEN err.errorObject ELSE Prim(Null)])
                      ELSE onErrorCalls
               /\ error' = err
               /\ data' = Prim(Undefined)
               /\ isSuccess' = FALSE
          ELSE /\ data' = succeeded(result).data
               /\ isSuccess' = succeeded(result).isSuccess
               /\ error' = succeeded(result).error
               /\ errorObject' = succeeded(result).errorObject
               /\ UNCHANGED onErrorCalls
    /\ invocations' = [invocations EXCEPT ![i].settled = TRUE, ![i].how = "resolved",
                                          ![i].result = result]
    /\ last' = [op |-> "resolved", inv |-> i, wasAborted |-> invocations[i].aborted,
                prior |-> StateName]
    /\ UNCHANGED <<abortController, hookOptions, mounted>>

\* the transition's callback, when `await action(...args)` rejects with exc
transitionRejected(i, exc) ==
    /\ i \in 1..Len(invocations)
    /\ ~invocations[i].settled
    /\ LET err == HookError(exc, Prim(Undefined)) IN
       /\ onErrorCalls' =
              IF hookOptions.onError
              THEN Append(onErrorCalls,
                          [inv |-> i, aborted |-> invocations[i].aborted, error |-> err,
                           errorObject |-> IF Truthy(err.errorObject)
                                           THEN err.errorObject ELSE Prim(Null)])
              ELSE onErrorCalls
       /\ IF signalAborted(i)
          THEN UNCHANGED <<data, isSuccess, error>>
          ELSE /\ error' = err
               /\ data' = Prim(Undefined)
               /\ isSuccess' = FALSE
    /\ invocations' = [invocations EXCEPT ![i].settled = TRUE, ![i].how = "rejected",
                                          ![i].exc = exc]
    /\ last' = [op |-> "rejected", inv |-> i, wasAborted |-> invocations[i].aborted,
                prior |-> StateName]
    /\ UNCHANGED <<errorObject, abortController, hookOptions, onSuccessCalls, mounted>>

\* the cleanup of the hook's effect, run when the component is torn down
cleanup ==
    /\ mounted
    /\ mounted' = FALSE
    /\ invocations' = abortCurrent(invocations, abortController)
    /\ last' = [op |-> "cleanup", inv |-> abortController, wasAborted |-> FALSE,
                prior |-> StateName]
    /\ UNCHANGED <<data, isSuccess, error, errorObject, abortController, hookOptions,
                   onSuccessCalls, onErrorCalls>>

(***************************************************************************)
(* The state of the remaining operations: probe is one evaluation of        *)
(* ServerError.getUserMessage, parse one call of parseJSON, glob the        *)
(* process-wide object initOnce and doOnce write to, once what their calls  *)
(* did so far.                                                              *)
(***************************************************************************)
VARIABLES probe, parse, glob, once

restVars == <<probe, parse, glob, once>>

(***************************************************************************)
(* helpers.ts: a boundary handles one request or action invocation and      *)
(* shares no state with any other, so a behaviour makes one call.  call is  *)
(* the boundary called with its inputs, result what it did and how it ended.*)
(***************************************************************************)
VARIABLES call, result

boundaryVars == <<call, result>>

vars == <<hookVars, boundaryVars, restVars>>

NoOptions ==
    [mapError |-> [mode |-> "absent", value |-> NoError], onError |-> "absent",
     errorLogs |-> "unset"]

BoundaryInit ==
    /\ call = [fn |-> "none", work |-> ReturnValue(Prim(Undefined)), options |-> NoOptions]
    /\ result = [events |-> <<>>, out |-> ReturnValue(Prim(Undefined))]

(***************************************************************************)
(* server-error.ts: getUserMessage on one ServerError.                      *)
(***************************************************************************)
ProbeInit ==
    probe = [done |-> FALSE, err |-> NoError, userMessage |-> "", status |-> 0]

\* the status codes tried: those of the table of getDefaultErrorMessage, and
\* some it does not hold
StatusCodes ==
    {400, 401, 403, 404, 406, 409, 422, 429, 451, 500, 501}
        \cup {0, 200, 402, 418, 502, 503}

ProbeErrors ==
    { ServerError(m, [NoInfo EXCEPT !.status = st, !.userMessage = um]) :
        m \in {"boom", ""},
        st \in {Undefined} \cup {Num(c) : c \in StatusCodes},
        um \in {Undefined, True, Str("X"), Str("")} }

\* new ServerError(message, info).getUserMessage() and .getStatus()
GetUserMessage ==
    /\ ~probe.done
    /\ \E e \in ProbeErrors :
           probe' = [done |-> TRUE, err |-> e, userMessage |-> getUserMessage(e),
                     status |-> getStatus(e)]
    /\ UNCHANGED <<hookVars, boundaryVars, parse, glob, once>>

(***************************************************************************)
(* helpers.ts: parseJSON.  A request has its Content-Type header (Null when *)
(* it has none) and a body text; request.json() reads and decodes the body  *)
(* and may fail in the reading too.                                         *)
(***************************************************************************)
ContentTypes ==
    { Null, Str("application/json"), Str("application/json; charset=utf-8"),
      Str("Application/JSON"), Str("text/plain"), Str("multipart/form-data"), Str("") }

Bodies == {"null", "0", "1", "true", "\"a\"", "[]", "{}", "", "{", "[1,", "nope"}

Requests == [contentType : ContentTypes, body : Bodies]

SyntaxError == [k |-> "unknown", message |-> "Unexpected token", n |-> 0, info |-> NoInfo]

\* what decoding a body text gives: its value, or a SyntaxError
JSONparse(text) ==
    CASE text = "null" -> ReturnValue(Prim(Null))
      [] text = "0" -> ReturnValue(Prim(Num(0)))
      [] text = "1" -> ReturnValue(Prim(Num(1)))
      [] text = "true" -> ReturnValue(Prim(True))
      [] text = "\"a\"" -> ReturnValue(Prim(Str("a")))
      [] text = "[]" -> ReturnValue(Prim(Arr(<<>>)))
      [] text = "{}" -> ReturnValue(Obj(Undefined, Undefined, Undefined, Undefined))
      [] OTHER -> Throw(SyntaxError)

\* what parseJSON ends with: as a boundary's outcome, and the info.cause of
\* the ServerError it raised
ParseOutcome(out, cause) == [out |-> out, cause |-> cause]

ParseInit ==
    parse = [pc |-> "idle", request |-> [contentType |-> Null, body |-> ""],
             jsonStarted |-> FALSE, decoded |-> ReturnValue(Prim(Undefined)),
             end |-> ParseOutcome(ReturnValue(Prim(Undefined)), NoError)]

\* a check that lets every request through that declares some content type
isJSONContentTypeAny(header) == header # Null

\* request.headers.get("Content-Type") === "application/json"
isJSONContentType(header) == header = Str("application/json")

\* parseJSON up to its await: the content-type check, then request.json()
parseJSON ==
    /\ parse.pc = "idle"
    /\ \E request \in Requests :
           IF ~isJSONContentType(request.contentType)
           THEN parse' = [parse EXCEPT
                    !.pc = "done", !.request = request,
                    !.end = ParseOutcome(
                        Throw(ServerError("Expected content type application/json",
                                  [NoInfo EXCEPT !.status = Num(406),
                                                 !.userMessage = True])),
                        NoError)]
           ELSE parse' = [parse EXCEPT !.pc = "decoding", !.request = request,
                                       !.jsonStarted = TRUE]
    /\ UNCHANGED <<hookVars, boundaryVars, probe, glob, once>>

\* request.json() ends, with the decoded body or with a failure of the
\* decoding or of the reading, and parseJSON ends with it
jsonSettled ==
    /\ parse.pc = "decoding"
    /\ \E decoded \in {JSONparse(parse.request.body)}
                        \cup {Throw(e) : e \in UnknownErrors} :
           parse' = [parse EXCEPT
               !.pc = "done", !.decoded = decoded,
               !.end = IF decoded.kind = "return"
                       THEN ParseOutcome(decoded, NoError)
                       ELSE ParseOutcome(
                                Throw(ServerError("Failed to decode JSON",
                                          [NoInfo EXCEPT !.status = Num(400)])),
                                decoded.exc)]
    /\ UNCHANGED <<hookVars, boundaryVars, probe, glob, once>>

(***************************************************************************)
(* helpers.ts: initOnce and doOnce.  glob maps each property name the two   *)
(* functions may write to whether the global object has it, and its value.  *)
(***************************************************************************)
Keys == {"a", "b"}

\* key = "@initOnce:" + key
initOnceKey(key) == "@initOnce:" \o key

\* key = "@doOnce:" + key
doOnceKey(key) == "@doOnce:" \o key

Properties == {initOnceKey(k) : k \in Keys} \cup {doOnceKey(k) : k \in Keys}

\* what a factory or an action passed in does when run: returns value, or raises
Thunks ==
    { [kind |-> "return", value |-> v] : v \in {Undefined, Null, Str("v1"), Str("v2")} }
        \cup { [kind |-> "throw", value |-> Undefined] }

OnceInit ==
    /\ glob = [p \in Properties |-> [has |-> FALSE, value |-> Undefined]]
    /\ once = [calls |-> 0,
               last |-> [fn |-> "none", key |-> "", wasInit |-> FALSE, ran |-> FALSE,
                         kind |-> "return", value |-> Undefined],
               first |-> [k \in Keys |-> [set |-> FALSE, value |-> Undefined]],
               lateRuns |-> [k \in Keys |-> 0]]

\* a test of the stored value instead of the key: `if (glob[key])`
hasKeyWithTruthyValue(g, key) == g[key].has /\ Truthy(g[key].value)

\* key in glob
hasKey(g, key) == g[key].has

initOnce ==
    /\ once.calls < MaxCalls
    /\ \E k \in Keys, value \in Thunks :
        LET key == initOnceKey(k)
            found == hasKey(glob, key)
            stores == ~found /\ value.kind = "return"
        IN
        /\ glob' = IF stores
                   THEN [glob EXCEPT ![key] = [has |-> TRUE, value |-> value.value]]
                   ELSE glob
        /\ once' = [calls |-> once.calls + 1,
                    last |-> [fn |-> "initOnce", key |-> k,
                              wasInit |-> once.first[k].set, ran |-> ~found,
                              kind |-> IF found THEN "return" ELSE value.kind,
                              value |-> IF found THEN glob[key].value
                                        ELSE value.value],
                    first |-> IF stores /\ ~once.first[k].set
                              THEN [once.first EXCEPT
                                       ![k] = [set |-> TRUE, value |-> value.value]]
                              ELSE once.first,
                    lateRuns |-> IF ~found /\ once.first[k].set
                                 THEN [once.lateRuns EXCEPT ![k] = @ + 1]
                                 ELSE once.lateRuns]
    /\ UNCHANGED <<hookVars, boundaryVars, probe, parse>>

doOnce ==
    /\ once.calls < MaxCalls
    /\ \E k \in Keys, action_ \in Thunks :
        LET key == doOnceKey(k)
            found == hasKey(glob, key)
        IN
        /\ glob' = IF found THEN glob
                   ELSE [glob EXCEPT ![key] = [has |-> TRUE, value |-> Str("done")]]
        /\ once' = [once EXCEPT
                       !.calls = @ + 1,
                       !.last = [fn |-> "doOnce", key |-> k,
                                 wasInit |-> once.first[k].set, ran |-> ~found,
                                 kind |-> IF found THEN "return" ELSE action_.kind,
                                 value |-> Undefined]]
    /\ UNCHANGED <<hookVars, boundaryVars, probe, parse>>

RestInit == ProbeInit /\ ParseInit /\ OnceInit

Send ==
    /\ call.fn = "none"
    /\ \E work \in SendWorks, options \in Options :
        /\ call' = [fn |-> "send", work |-> work, options |-> options]
        /\ result' = send(work, options)
        /\ UNCHANGED <<hookVars, restVars>>

Act ==
    /\ call.fn = "none"
    /\ \E work \in ActWorks, options \in Options :
        /\ call' = [fn |-> "act", work |-> work, options |-> options]
        /\ result' = act(work, options)
        /\ UNCHANGED <<hookVars, restVars>>

InitBoundary ==
    /\ HookInit
    /\ hookOptions = [onSuccess |-> TRUE, onError |-> TRUE]
    /\ BoundaryInit
    /\ RestInit

NextBoundary == Send \/ Act

SpecBoundary == InitBoundary /\ [][NextBoundary]_vars

InitHook == HookInit /\ BoundaryInit /\ RestInit

NextHook ==
    \/ action /\ UNCHANGED <<boundaryVars, restVars>>
    \/ \E i \in 1..MaxInvocations, v \in HookResults :
           transitionResolved(i, v) /\ UNCHANGED <<boundaryVars, restVars>>
    \/ \E i \in 1..MaxInvocations, e \in HookRejections :
           transitionRejected(i, e) /\ UNCHANGED <<boundaryVars, restVars>>
    \/ cleanup /\ UNCHANGED <<boundaryVars, restVars>>

SpecHook == InitHook /\ [][NextHook]_vars

\* the start of the specifications of the remaining operations
InitRest == InitBoundary

SpecMessage == InitRest /\ [][GetUserMessage]_vars

NextParse == parseJSON \/ jsonSettled

SpecParse == InitRest /\ [][NextParse]_vars

NextOnce == initOnce \/ doOnce

SpecOnce == InitRest /\ [][NextOnce]_vars

(***************************************************************************)
(* Properties of useServerAction, checked under SpecHook.                   *)
(***************************************************************************)
Settles(op) == op \in {"resolved", "rejected"}

\* C1: the settlement of an invocation that was cancelled (by a newer action()
\* call or by the cleanup) leaves data, error, errorObject and isSuccess as
\* they were.
C1_CancelledSettlementKeepsState ==
    [][(Settles(last'.op) /\ last'.wasAborted)
          => UNCHANGED <<data, error, errorObject, isSuccess>>]_vars

\* the first invocation, cancelled by a second one that is still outstanding,
\* has resolved to a success value, and data is still undefined
C1_Witness ==
    /\ Len(invocations) >= 2
    /\ invocations[1].aborted /\ invocations[1].how = "resolved"
    /\ ~invocations[2].settled
    /\ last.op = "resolved" /\ last.inv = 1 /\ last.wasAborted
    /\ isSuccessObject(invocations[1].result)
    /\ data = Prim(Undefined)

\* C2 (as claimed): no call of onSuccess or onError is made by an invocation
\* that was already cancelled when it settled.
C2_CancelledSettlementCallsNoCallback ==
    /\ \A k \in 1..Len(onSuccessCalls) : ~onSuccessCalls[k].aborted
    /\ \A k \in 1..Len(onErrorCalls) : ~onErrorCalls[k].aborted

C4_NavigationSignalNotIntercepted ==
    (last.op = "rejected" /\ ~last.wasAborted
        /\ isRedirectError(invocations[last.inv].exc)) =>
        /\ error.e # invocations[last.inv].exc
        /\ \A k \in 1..Len(onErrorCalls) :
               onErrorCalls[k].inv = last.inv
                   => onErrorCalls[k].error.e # invocations[last.inv].exc

\* C5: right after action(), whatever the state before, data is undefined,
\* error and errorObject are null, isSuccess is false and the hook is pending.
C5_ActionClearsAndPends ==
    last.op = "action" =>
        /\ data = Prim(Undefined)
        /\ error = NullError
        /\ errorObject = Prim(Null)
        /\ ~isSuccess
        /\ isPending
        /\ StateName = "Pending"
        /\ ~invocations[last.inv].settled

\* action() was called in the Succeeded state
C5_Witness ==
    /\ last.op = "action"
    /\ last.prior = "Succeeded"
    /\ StateName = "Pending"

(***************************************************************************)
(* Properties of send and act, checked under SpecBoundary.                  *)
(***************************************************************************)
RaisedByWork == call.work.kind = "throw"

\* send ended by performing the redirect of the error it handled
PerformedRedirect ==
    /\ result.out.kind = "throw"
    /\ isRedirectError(result.out.exc)
    /\ result.events # <<>>
    /\ result.events[Len(result.events)] = Ev("redirect", result.out.exc)

\* C6 (as claimed): whenever the unit of work raises something other than the
\* navigation signal, send ends by returning a Response or by performing the
\* error's redirect, whatever the options are.
C6_SendNeverRaises ==
    (call.fn = "send" /\ RaisedByWork /\ ~isRedirectError(call.work.exc)) =>
        (result.out.kind = "return" \/ PerformedRedirect)

\* C7: when the unit of work raises the navigation signal, send and act raise
\* that same signal, and call no hook and write no log on the way.
C7_NavigationSignalPropagates ==
    (call.fn \in {"send", "act"} /\ RaisedByWork /\ isRedirectError(call.work.exc)) =>
        /\ result.out = Throw(call.work.exc)
        /\ result.events = <<>>

\* send met the navigation signal with every hook supplied
C7_Witness ==
    /\ call.fn = "send"
    /\ RaisedByWork /\ isRedirectError(call.work.exc)
    /\ call.options.mapError.mode = "returns"
    /\ call.options.onError = "returns"
    /\ result.out.kind = "throw"

\* C8: for a ServerError e without a redirect target raised by the unit of
\* work, send returns (unless onError itself raises) a Response of status
\* e.getStatus() whose body is the JSON text of {error: e.getUserMessage(),
\* status: e.getStatus(), tags: e.getTags()}; status 404 with userMessage "X"
\* and no tags gives {"error":"X","status":404,"tags":[]}.
C8_SendServerErrorResponse ==
    (call.fn = "send" /\ RaisedByWork /\ InstanceOfServerError(call.work.exc)
        /\ ~shouldRedirect(call.work.exc)) =>
        LET e == call.work.exc
            r == result.out.resp
        IN
        /\ call.options.onError # "throws" => result.out.kind = "return"
        /\ result.out.kind = "return" =>
              /\ r.status = getStatus(e)
              /\ r.body = JSONstringify(getUserMessage(e), getStatus(e), getTags(e))
              /\ (e.info.status = Num(404) /\ e.info.userMessage = Str("X")
                    /\ e.info.tags = Undefined) =>
                     /\ r.status = 404
                     /\ r.body = "{\"error\":\"X\",\"status\":404,\"tags\":[]}"

\* send answered a ServerError that carries a tag
C8_Witness ==
    /\ call.fn = "send" /\ RaisedByWork /\ InstanceOfServerError(call.work.exc)
    /\ ~shouldRedirect(call.work.exc)
    /\ getTags(call.work.exc) # <<>>
    /\ call.work.exc.info.userMessage = True
    /\ result.out.kind = "return"
    /\ result.out.resp.status = 503

\* C9: for a raised value that is neither a ServerError nor the navigation
\* signal, with mapError absent or returning null / undefined, what send and
\* act return is one fixed value, the generic 500 shape, whatever was raised.
C9_UnknownErrorIsGeneric ==
    (call.fn \in {"send", "act"} /\ RaisedByWork /\ call.work.exc.k = "unknown"
        /\ call.options.mapError.mode \in {"absent", "null"}) =>
        /\ call.options.onError # "throws" => result.out.kind = "return"
        /\ (result.out.kind = "return" /\ call.fn = "send") =>
              result.out.resp =
                  [status |-> 500,
                   body |-> "{\"error\":\"Internal Server Error\",\"status\":500,\"tags\":[]}",
                   contentType |-> "application/json"]
        /\ (result.out.kind = "return" /\ call.fn = "act") =>
              result.out.val =
                  Obj(Str("Internal Server Error"), Num(500), Arr(<<>>), True)

\* send answered the second unknown error, mapError having returned null
C9_Witness ==
    /\ call.fn = "send" /\ RaisedByWork
    /\ call.work.exc = UnknownError(MaxUnknown)
    /\ call.options.mapError.mode = "null"
    /\ result.out.kind = "return"

\* C10: for every ServerError raised inside act, the value act returns
\* satisfies isErrorObject, does not satisfy isSuccessObject, and has the
\* error's getStatus() as its status.
C10_ActRoundTrip ==
    (call.fn = "act" /\ RaisedByWork /\ InstanceOfServerError(call.work.exc)) =>
        /\ call.options.onError # "throws" => result.out.kind = "return"
        /\ result.out.kind = "return" =>
              /\ isErrorObject(result.out.val)
              /\ ~isSuccessObject(result.out.val)
              /\ result.out.val.status = Num(getStatus(call.work.exc))

\* act returned the object of a ServerError of status 200 with an empty
\* message and an empty tag list
C10_Witness ==
    /\ call.fn = "act" /\ RaisedByWork /\ InstanceOfServerError(call.work.exc)
    /\ call.work.exc.info.status = Num(200)
    /\ call.work.exc.info.userMessage = True
    /\ call.work.exc.message = ""
    /\ call.work.exc.info.tags = Arr(<<>>)
    /\ result.out.kind = "return"
    /\ result.out.val.status = Num(200)

(***************************************************************************)
(* Properties of the error pipeline of send and act, under SpecBoundary.    *)
(***************************************************************************)
\* how many of the observable calls are calls of name
Count(events, name) == Cardinality({k \in 1..Len(events) : events[k].ev = name})

Logged(events) == Count(events, "log") > 0

\* the boundary caught something that is not the navigation signal
CaughtError == RaisedByWork /\ ~isRedirectError(call.work.exc)

\* the boundary called mapError and it raised
MapErrorRaised ==
    /\ ~InstanceOfServerError(call.work.exc)
    /\ call.options.mapError.mode = "throws"

\* neither hook raised while the boundary handled the error
HooksReturned == ~MapErrorRaised /\ call.options.onError # "throws"

\* the error the boundary answers for: what mapError made of the caught value
Handled ==
    IF ~InstanceOfServerError(call.work.exc) /\ call.options.mapError.mode = "returns"
    THEN call.options.mapError.value
    ELSE call.work.exc

HandledStatus == IF InstanceOfServerError(Handled) THEN getStatus(Handled) ELSE 500

LogSettings == {"unset", "all", "5xx", "disabled"}

\* C11 (as claimed): for every caught error and every errorLogs value, act
\* writes a log exactly when send does for the same error and options; with
\* "5xx" an error of status below 500 is not logged.
C11_ActLogsAsSend ==
    (call.fn = "act" /\ CaughtError) =>
        /\ Logged(result.events) <=> Logged(send(call.work, call.options).events)
        /\ (call.options.errorLogs = "5xx" /\ HandledStatus < 500)
              => ~Logged(result.events)

\* C12: when send has caught an error and neither hook raised, it writes one
\* log if errorLogs is unset or "all", or is "5xx" with the status of the
\* answer at least 500 (500 for an unknown error), and none otherwise, so
\* none with "disabled"; and what send returns or raises is the same for
\* every errorLogs value.
C12_SendLoggingPolicy ==
    (call.fn = "send" /\ CaughtError) =>
        /\ HooksReturned =>
              /\ Count(result.events, "log") <= 1
              /\ Logged(result.events) <=>
                    \/ call.options.errorLogs \in {"unset", "all"}
                    \/ (call.options.errorLogs = "5xx" /\ HandledStatus >= 500)
              /\ call.options.errorLogs = "disabled" => ~Logged(result.events)
              /\ \A k \in 1..Len(result.events) :
                    result.events[k].ev = "log" => result.events[k].arg = Handled
        /\ \A l \in LogSettings :
              send(call.work, [call.options EXCEPT !.errorLogs = l]).out = result.out

\* send answered a ServerError of status 404 under "5xx" without a log
C12_Witness ==
    /\ call.fn = "send" /\ CaughtError /\ HooksReturned
    /\ InstanceOfServerError(call.work.exc)
    /\ call.work.exc.info.status = Num(404)
    /\ call.options.errorLogs = "5xx"
    /\ result.out.kind = "return"
    /\ ~Logged(result.events)

\* the boundary named in call, applied to other inputs
Boundary(work, options) ==
    IF call.fn = "send" THEN send(work, options) ELSE act(work, options)

\* C15: send and act call mapError at most once, first, and only for a
\* caught value that is neither the navigation signal nor a ServerError; when
\* it returns a ServerError E, all that follows (the argument of onError, the
\* log, the redirect, the answer) is what the boundary does when the unit of
\* work raises E; when it returns null or undefined the answer is the generic
\* 500 one; and onError, when supplied and reached, is called once, after
\* mapError.
C15_MapErrorPipeline ==
    (call.fn \in {"send", "act"} /\ CaughtError) =>
        LET ev == result.events
            unknown == ~InstanceOfServerError(call.work.exc)
            mode == call.options.mapError.mode
        IN
        /\ Count(ev, "mapError") <= 1
        /\ Count(ev, "mapError") = 1 <=> (unknown /\ mode # "absent")
        /\ Count(ev, "mapError") = 1 => ev[1] = Ev("mapError", call.work.exc)
        /\ (unknown /\ mode = "returns") =>
              LET direct == Boundary(Throw(call.options.mapError.value), call.options)
              IN /\ Tail(ev) = direct.events
                 /\ result.out = direct.out
        /\ (unknown /\ mode = "null" /\ call.options.onError # "throws") =>
              /\ call.fn = "send" =>
                    result.out = ReturnResponse(
                        [status |-> 500,
                         body |-> "{\"error\":\"Internal Server Error\",\"status\":500,\"tags\":[]}",
                         contentType |-> "application/json"])
              /\ call.fn = "act" =>
                    result.out = ReturnValue(
                        Obj(Str("Internal Server Error"), Num(500), Arr(<<>>), True))
        /\ (call.options.onError # "absent" /\ ~MapErrorRaised) =>
              /\ Count(ev, "onError") = 1
              /\ ev[Count(ev, "mapError") + 1] = Ev("onError", Handled)
        /\ call.options.onError = "absent" => Count(ev, "onError") = 0

\* send caught an unknown error that mapError turned into a ServerError with
\* a redirect: onError saw the mapped error and send performed the redirect
C15_Witness ==
    /\ call.fn = "send" /\ CaughtError
    /\ call.work.exc.k = "unknown"
    /\ call.options.mapError.mode = "returns"
    /\ shouldRedirect(call.options.mapError.value)
    /\ call.options.onError = "returns"
    /\ Len(result.events) >= 2
    /\ result.events[2] = Ev("onError", call.options.mapError.value)
    /\ PerformedRedirect

(***************************************************************************)
(* Properties of ServerError.getUserMessage, checked under SpecMessage.     *)
(***************************************************************************)
\* the phrases of the table, by status
Phrases ==
    { <<400, "Bad Request">>, <<401, "Unauthorized">>, <<403, "Forbidden">>,
      <<404, "Not Found">>, <<406, "Not Acceptable">>, <<409, "Conflict">>,
      <<422, "Unprocessable Entity">>, <<429, "Too Many Requests">>,
      <<451, "Unavailable For Legal Reasons">>, <<500, "Internal Server Error">>,
      <<501, "Not Implemented">> }

\* the status has the phrase in the table, or has none and the phrase is "Error"
IsPhraseOf(phrase, status) ==
    \/ <<status, phrase>> \in Phrases
    \/ (phrase = "Error" /\ \A p \in Phrases : p[1] # status)

ProbedStatusIsResolved ==
    probe.status = IF probe.err.info.status = Undefined THEN 500
                   ELSE probe.err.info.status.n

\* C13 (as claimed): getUserMessage is the raw message when info.userMessage
\* is true; otherwise the override string whenever info.userMessage is a
\* string, whatever the string; otherwise the table's phrase for getStatus(),
\* "Error" for a status outside the table, getStatus() being 500 when status
\* is omitted.
C13_UserMessageResolution ==
    probe.done =>
        /\ ProbedStatusIsResolved
        /\ CASE probe.err.info.userMessage = True ->
                    probe.userMessage = probe.err.message
             [] probe.err.info.userMessage.t = "string" ->
                    probe.userMessage = probe.err.info.userMessage.s
             [] OTHER -> IsPhraseOf(probe.userMessage, probe.status)

\* C13 (amended): as claimed, but only a non-empty override string is used;
\* an empty one counts as absent and the table's phrase is returned.
C13_UserMessageResolutionNonEmpty ==
    probe.done =>
        /\ ProbedStatusIsResolved
        /\ CASE probe.err.info.userMessage = True ->
                    probe.userMessage = probe.err.message
             [] probe.err.info.userMessage.t = "string"
                  /\ probe.err.info.userMessage.s # "" ->
                    probe.userMessage = probe.err.info.userMessage.s
             [] OTHER -> IsPhraseOf(probe.userMessage, probe.status)

\* an empty override on a 404 gave the table's phrase
C13_Witness ==
    /\ probe.done
    /\ probe.err.info.userMessage = Str("")
    /\ probe.err.info.status = Num(404)
    /\ probe.userMessage = "Not Found"

(***************************************************************************)
(* Properties of parseJSON, checked under SpecParse.                        *)
(***************************************************************************)
DeclaresJSON == parse.request.contentType = Str("application/json")

\* C14: a request whose Content-Type is not application/json makes parseJSON
\* fail with a ServerError of status 406 without request.json() being
\* started; when the content type matches and the decoding fails, parseJSON
\* fails with a ServerError of status 400 whose cause is that failure.
C14_ParseJSONContract ==
    /\ (parse.pc # "idle" /\ ~DeclaresJSON) =>
          /\ parse.pc = "done"
          /\ ~parse.jsonStarted
          /\ parse.end.out.kind = "throw"
          /\ InstanceOfServerError(parse.end.out.exc)
          /\ getStatus(parse.end.out.exc) = 406
    /\ (parse.pc = "done" /\ DeclaresJSON) =>
          /\ parse.jsonStarted
          /\ parse.decoded.kind = "throw" =>
                /\ parse.end.out.kind = "throw"
                /\ InstanceOfServerError(parse.end.out.exc)
                /\ getStatus(parse.end.out.exc) = 400
                /\ parse.end.cause = parse.decoded.exc
          /\ parse.decoded.kind = "return" => parse.end.out = parse.decoded

\* a request declaring JSON with a charset parameter was turned down with 406
\* and its body was never decoded
C14_Witness ==
    /\ parse.pc = "done"
    /\ parse.request.contentType = Str("application/json; charset=utf-8")
    /\ parse.request.body = "{}"
    /\ ~parse.jsonStarted
    /\ parse.end.out.kind = "throw"
    /\ getStatus(parse.end.out.exc) = 406

(***************************************************************************)
(* Properties of initOnce and doOnce, checked under SpecOnce.               *)
(***************************************************************************)
\* C16: once an initOnce call for a key has completed, the value it stored
\* stays under that key, no later initOnce call for the key runs its factory,
\* and every later one returns that value (undefined and null included),
\* whatever initOnce calls for other keys and doOnce calls were made.
C16_InitOnceIsIdempotent ==
    /\ \A k \in Keys :
          once.first[k].set =>
              /\ hasKey(glob, initOnceKey(k))
              /\ glob[initOnceKey(k)].value = once.first[k].value
              /\ once.lateRuns[k] = 0
    /\ (once.last.fn = "initOnce" /\ once.last.wasInit) =>
          /\ ~once.last.ran
          /\ once.last.kind = "return"
          /\ once.last.value = once.first[once.last.key].value
    /\ (once.last.fn = "initOnce" /\ once.last.kind = "return") =>
          /\ once.first[once.last.key].set
          /\ once.last.value = once.first[once.last.key].value

\* key "a" was initialised to undefined, doOnce ran with the same key, and an
\* initOnce call for "a" made after both returned undefined
C16_Witness ==
    /\ once.first["a"].set
    /\ once.first["a"].value = Undefined
    /\ glob[doOnceKey("a")].has
    /\ once.calls >= 3
    /\ once.last.fn = "initOnce" /\ once.last.key = "a" /\ once.last.wasInit
    /\ ~once.last.ran
    /\ once.last.value = Undefined

====
